---------------------------- MODULE Spec2Model ----------------------------
(***************************************************************************)
(* Warehouse product editing: the product detail view (ProductDetails.tsx) *)
(* and the product actions menu (ProductActionsModal, src/unnamed/part_000)*)
(* with the document store they write to: one product record and the       *)
(* append-only collection productMovements.                                *)
(*                                                                         *)
(* A browser tab shows one page: the detail page of a product, or the       *)
(* product list with the actions menu of that product.                     *)
(*                                                                         *)
(* Every await of a handler is a point where the handler is suspended: a   *)
(* suspended save is an element of inflight that holds the values the      *)
(* handler's closure captured when Save was clicked.  The store answers a  *)
(* pending request by resolving or rejecting it, in any order.             *)
(***************************************************************************)
EXTENDS Integers, Sequences, FiniteSets, Bags

\* Largest quantity and price typed into an input.
MaxQty == 2
MaxPrice == 2
\* Number of product updates of this tab that the store applies in one
\* behaviour; a save is not sent when it could make one more.
MaxUpdates == 2

\* What the user types into the number inputs: a negative number, zero, the
\* largest value.
QtyInputs == {-1, 0, MaxQty}
PriceInputs == {-1, 0, MaxPrice}
\* What the quantity dialogs hand to onConfirm.
ConfirmedQuantities == {q \in QtyInputs : q >= 0}

\* null, and the absence of a navigate() call, as records so that they compare
\* with the records they stand in for.
Null == [null |-> TRUE]
NoNavigation == [path |-> "none"]
NoNotification == "none"

\* Route parameter of the detail view: absent, the stored product, an id
\* the store holds no document for.
NoId == "undefined"
ProductId == "p1"
MissingId == "p404"
RouteParams == {NoId, ProductId, MissingId}

\* The sub-dialogs of the menu, by the state flag that shows them.
SubDialogs == {"showMoveFolder", "showMovement", "showStock", "showDelete",
               "showExpenseQuantity", "showIncomeQuantity"}

VARIABLES
    store,          \* the document products/p1: quantity, averagePurchasePrice, totalPurchasePrice
    productMovements, \* the collection productMovements, in insertion order
    route,          \* the page this tab shows, and useParams().id on the detail page
    loadPc,         \* position of the mount effect loadProduct
    details,        \* useState cells of ProductDetails
    props,          \* props of ProductActionsModal: isOpen, product
    menu,           \* useState cells of ProductActionsModal
    inflight,       \* suspended handleSave calls, a bag
    updates,        \* number of updateDoc calls of this tab the store has applied
    unlocked,       \* components whose password prompt has called onSuccess
    notification,   \* toast shown by the last step
    navigation      \* navigate() call made by the last step

vars == <<store, productMovements, route, loadPc, details, props, menu, inflight,
          updates, unlocked, notification, navigation>>

Abs(x) == IF x < 0 THEN -x ELSE x

\* The product document before any edit: out of stock, its total either in
\* step with quantity and price or left over from an earlier quantity.
InitialProducts ==
    {[quantity |-> 0, averagePurchasePrice |-> MaxPrice, totalPurchasePrice |-> t] :
        t \in {0, MaxPrice}}

Init ==
    /\ store \in InitialProducts
    /\ productMovements = <<>>
    /\ route \in {[page |-> "list", id |-> NoId]}
                \cup {[page |-> "details", id |-> i] : i \in RouteParams}
    /\ loadPc = "mount"
    /\ details = [product |-> Null, loading |-> TRUE, isEditing |-> FALSE,
                  editedQuantity |-> 0, editedPrice |-> 0,
                  showPasswordPrompt |-> FALSE]
    /\ props = [isOpen |-> FALSE, product |-> store]
    /\ menu = [showMoveFolder |-> FALSE, showMovement |-> FALSE,
               showStock |-> FALSE, showDelete |-> FALSE,
               showExpenseQuantity |-> FALSE, showIncomeQuantity |-> FALSE,
               showPasswordPrompt |-> FALSE, isEditing |-> FALSE,
               editedQuantity |-> store.quantity,
               editedPrice |-> store.averagePurchasePrice]
    /\ inflight = EmptyBag
    /\ updates = 0
    /\ unlocked = {}
    /\ notification = NoNotification
    /\ navigation = NoNavigation

Quiet == notification' = NoNotification /\ navigation' = NoNavigation

-----------------------------------------------------------------------------
(* ProductDetails *)

\* The effect body up to its first await.
LoadProduct ==
    /\ route.page = "details"
    /\ loadPc = "mount"
    /\ loadPc' = IF route.id = NoId THEN "returned" ELSE "getDoc"
    /\ Quiet
    /\ UNCHANGED <<store, productMovements, route, details, props, menu,
                   inflight, updates, unlocked>>

\* getDoc resolves: the snapshot exists for ProductId only.
GetDocResolve ==
    /\ loadPc = "getDoc"
    /\ loadPc' = "returned"
    /\ details' = IF route.id = ProductId
                  THEN [details EXCEPT !.product = store,
                                       !.editedQuantity = store.quantity,
                                       !.editedPrice = store.averagePurchasePrice,
                                       !.loading = FALSE]
                  ELSE [details EXCEPT !.loading = FALSE]
    /\ Quiet
    /\ UNCHANGED <<store, productMovements, route, props, menu, inflight, updates,
                   unlocked>>

\* getDoc rejects: catch logs, finally clears loading.
GetDocReject ==
    /\ loadPc = "getDoc"
    /\ loadPc' = "returned"
    /\ details' = [details EXCEPT !.loading = FALSE]
    /\ Quiet
    /\ UNCHANGED <<store, productMovements, route, props, menu, inflight, updates,
                   unlocked>>

\* The product page is rendered (neither the spinner nor the not-found state).
DetailsRendered == ~details.loading /\ details.product # Null

\* The page's own controls can be clicked: the password prompt is not over them.
DetailsClickable == DetailsRendered /\ ~details.showPasswordPrompt

\* The Edit button entering edit mode at once, without the prompt.
DetailsHandleEditClickNoPrompt ==
    /\ DetailsClickable
    /\ ~details.isEditing
    /\ details' = [details EXCEPT !.isEditing = TRUE]
    /\ Quiet
    /\ UNCHANGED <<store, productMovements, route, loadPc, props, menu, inflight,
                   updates, unlocked>>

DetailsHandleEditClick ==
    /\ DetailsClickable
    /\ ~details.isEditing
    /\ details' = [details EXCEPT !.showPasswordPrompt = TRUE]
    /\ Quiet
    /\ UNCHANGED <<store, productMovements, route, loadPc, props, menu, inflight,
                   updates, unlocked>>

DetailsHandlePasswordSuccess ==
    /\ DetailsRendered
    /\ details.showPasswordPrompt
    /\ details' = [details EXCEPT !.showPasswordPrompt = FALSE,
                                  !.isEditing = TRUE]
    /\ unlocked' = unlocked \cup {"details"}
    /\ Quiet
    /\ UNCHANGED <<store, productMovements, route, loadPc, props, menu, inflight,
                   updates>>

DetailsPasswordOnClose ==
    /\ DetailsRendered
    /\ details.showPasswordPrompt
    /\ details' = [details EXCEPT !.showPasswordPrompt = FALSE]
    /\ Quiet
    /\ UNCHANGED <<store, productMovements, route, loadPc, props, menu, inflight,
                   updates, unlocked>>

DetailsSetEditedQuantity(v) ==
    /\ DetailsClickable
    /\ details.isEditing
    /\ v # details.editedQuantity
    /\ details' = [details EXCEPT !.editedQuantity = v]
    /\ Quiet
    /\ UNCHANGED <<store, productMovements, route, loadPc, props, menu, inflight,
                   updates, unlocked>>

DetailsSetEditedPrice(v) ==
    /\ DetailsClickable
    /\ details.isEditing
    /\ v # details.editedPrice
    /\ details' = [details EXCEPT !.editedPrice = v]
    /\ Quiet
    /\ UNCHANGED <<store, productMovements, route, loadPc, props, menu, inflight,
                   updates, unlocked>>

DetailsCancel ==
    /\ DetailsClickable
    /\ details.isEditing
    /\ details' = [details EXCEPT !.isEditing = FALSE]
    /\ Quiet
    /\ UNCHANGED <<store, productMovements, route, loadPc, props, menu, inflight,
                   updates, unlocked>>


\* The toasts, one per call site (the source's texts are in Russian).
DetailsQuantityNegative == "details: quantity cannot be negative"
DetailsPriceNegative == "details: price cannot be negative"
DetailsSuccess == "details: quantity updated"
DetailsError == "details: error updating quantity"
MenuQuantityNegative == "menu: quantity cannot be negative"
MenuPriceNegative == "menu: price cannot be negative"
MenuSuccess == "menu: product updated"
MenuError == "menu: error updating product"

\* The suspended calls whose updateDoc the store has not answered.
AwaitingUpdateDoc == {call \in BagToSet(inflight) : call.phase = "updateDoc"}

PendingUpdates ==
    LET Sum[S \in SUBSET AwaitingUpdateDoc] ==
            IF S = {} THEN 0
            ELSE LET c == CHOOSE x \in S : TRUE
                 IN CopiesIn(c, inflight) + Sum[S \ {c}]
    IN Sum[AwaitingUpdateDoc]

\* The bound on the behaviour: one more update may still be applied.
CanSend == updates + PendingUpdates < MaxUpdates

\* The closure of one handleSave call, suspended at an await.
SaveCall(origin, product, q, p) ==
    [origin |-> origin, phase |-> "updateDoc",
     product |-> product, editedQuantity |-> q, editedPrice |-> p]

\* handleSave without its check of the price.
DetailsValidationQuantityOnly(q, p) ==
    IF q < 0 THEN DetailsQuantityNegative ELSE NoNotification

\* The toast of handleSave's validation, NoNotification when it passes.
DetailsValidation(q, p) ==
    IF q < 0 THEN DetailsQuantityNegative
    ELSE IF p < 0 THEN DetailsPriceNegative
    ELSE NoNotification

\* Click on Save: validation, then updateDoc is issued and awaited.
DetailsHandleSave ==
    /\ DetailsClickable
    /\ details.isEditing
    /\ LET q == details.editedQuantity
           p == details.editedPrice
           toast == DetailsValidation(q, p)
       IN IF toast # NoNotification
          THEN /\ notification' = toast
               /\ UNCHANGED inflight
          ELSE /\ CanSend
               /\ inflight' = inflight (+) SetToBag({SaveCall("details", details.product, q, p)})
               /\ notification' = NoNotification
    /\ navigation' = NoNavigation
    /\ UNCHANGED <<store, productMovements, route, loadPc, details, props, menu,
                   updates, unlocked>>

\* The update without its totalPurchasePrice field: the stored total stays.
DetailsProductUpdateNoTotal(q, p) ==
    [quantity |-> q, averagePurchasePrice |-> p,
     totalPurchasePrice |-> store.totalPurchasePrice]

\* The fields handleSave hands to updateDoc (updatedAt left out).
DetailsProductUpdate(q, p) ==
    [quantity |-> q, averagePurchasePrice |-> p, totalPurchasePrice |-> q * p]

\* The local product after the write: setProduct({...product, ...}).
DetailsLocalProduct(call) ==
    [call.product EXCEPT
        !.quantity = call.editedQuantity,
        !.averagePurchasePrice = call.editedPrice,
        !.totalPurchasePrice = call.editedQuantity * call.editedPrice]

\* updateDoc resolves: the store holds the write, the view copies it and
\* issues setDoc for the movement record.
DetailsUpdateDocResolve(call) ==
    /\ BagIn(call, inflight)
    /\ call.origin = "details"
    /\ call.phase = "updateDoc"
    /\ store' = DetailsProductUpdate(call.editedQuantity, call.editedPrice)
    /\ updates' = updates + 1
    /\ details' = [details EXCEPT !.product = DetailsLocalProduct(call)]
    /\ inflight' = (inflight (-) SetToBag({call}))
                    (+) SetToBag({[call EXCEPT !.phase = "setDoc"]})
    /\ Quiet
    /\ UNCHANGED <<productMovements, route, loadPc, props, menu, unlocked>>

\* The catch block dropping the edit: edit mode left, inputs reset.
DetailsUpdateDocRejectDropsEdit(call) ==
    /\ BagIn(call, inflight)
    /\ call.origin = "details"
    /\ call.phase = "updateDoc"
    /\ inflight' = inflight (-) SetToBag({call})
    /\ details' = [details EXCEPT !.isEditing = FALSE,
                                  !.editedQuantity = call.product.quantity,
                                  !.editedPrice = call.product.averagePurchasePrice]
    /\ notification' = DetailsError
    /\ navigation' = NoNavigation
    /\ UNCHANGED <<store, productMovements, route, loadPc, props, menu,
                   updates, unlocked>>

\* updateDoc rejects: the catch block.
DetailsUpdateDocReject(call) ==
    /\ BagIn(call, inflight)
    /\ call.origin = "details"
    /\ call.phase = "updateDoc"
    /\ inflight' = inflight (-) SetToBag({call})
    /\ notification' = DetailsError
    /\ navigation' = NoNavigation
    /\ UNCHANGED <<store, productMovements, route, loadPc, details, props, menu,
                   updates, unlocked>>

\* The movement record with the direction decided by >= instead of >.
MovementRecordUnchangedIsIn(call) ==
    LET previousQuantity == call.product.quantity
        isIncrease == call.editedQuantity >= previousQuantity
    IN [productId |-> ProductId,
        type |-> IF isIncrease THEN "in" ELSE "out",
        quantity |-> Abs(call.editedQuantity - previousQuantity),
        price |-> call.editedPrice,
        totalPrice |-> Abs(call.editedQuantity - previousQuantity) * call.editedPrice,
        previousQuantity |-> previousQuantity,
        newQuantity |-> call.editedQuantity,
        previousAveragePrice |-> call.product.averagePurchasePrice,
        newAveragePrice |-> call.editedPrice]

\* The document handleSave writes to productMovements.
MovementRecord(call) ==
    LET previousQuantity == call.product.quantity
        previousPrice == call.product.averagePurchasePrice
        isIncrease == call.editedQuantity > previousQuantity
    IN [productId |-> ProductId,
        type |-> IF isIncrease THEN "in" ELSE "out",
        quantity |-> Abs(call.editedQuantity - previousQuantity),
        price |-> call.editedPrice,
        totalPrice |-> Abs(call.editedQuantity - previousQuantity) * call.editedPrice,
        previousQuantity |-> previousQuantity,
        newQuantity |-> call.editedQuantity,
        previousAveragePrice |-> previousPrice,
        newAveragePrice |-> call.editedPrice]

\* setDoc resolves: edit mode is left and the success toast shown.
DetailsSetDocResolve(call) ==
    /\ BagIn(call, inflight)
    /\ call.origin = "details"
    /\ call.phase = "setDoc"
    /\ productMovements' = Append(productMovements, MovementRecord(call))
    /\ details' = [details EXCEPT !.isEditing = FALSE]
    /\ inflight' = inflight (-) SetToBag({call})
    /\ notification' = DetailsSuccess
    /\ navigation' = NoNavigation
    /\ UNCHANGED <<store, route, loadPc, props, menu, updates, unlocked>>

\* The catch block leaving edit mode as the success path does.
DetailsSetDocRejectLeavesEditMode(call) ==
    /\ BagIn(call, inflight)
    /\ call.origin = "details"
    /\ call.phase = "setDoc"
    /\ inflight' = inflight (-) SetToBag({call})
    /\ details' = [details EXCEPT !.isEditing = FALSE]
    /\ notification' = DetailsError
    /\ navigation' = NoNavigation
    /\ UNCHANGED <<store, productMovements, route, loadPc, props, menu,
                   updates, unlocked>>

\* setDoc rejects: the same catch block; the product update stays applied.
DetailsSetDocReject(call) ==
    /\ BagIn(call, inflight)
    /\ call.origin = "details"
    /\ call.phase = "setDoc"
    /\ inflight' = inflight (-) SetToBag({call})
    /\ notification' = DetailsError
    /\ navigation' = NoNavigation
    /\ UNCHANGED <<store, productMovements, route, loadPc, details, props, menu,
                   updates, unlocked>>

-----------------------------------------------------------------------------
(* ProductActionsModal *)

\* The owner of the menu shows it.
Open ==
    /\ route.page = "list"
    /\ ~props.isOpen
    /\ props' = [props EXCEPT !.isOpen = TRUE]
    /\ Quiet
    /\ UNCHANGED <<store, productMovements, route, loadPc, details, menu,
                   inflight, updates, unlocked>>

\* The onClose prop: the owner hides the menu; the component's state stays.
OnClose == props' = [props EXCEPT !.isOpen = FALSE]

\* A dialog of the menu (password prompt or sub-dialog) is shown over it.
MenuOverlay ==
    menu.showPasswordPrompt \/ \E d \in SubDialogs : menu[d]

\* The menu's own controls can be clicked.
MenuClickable == props.isOpen /\ ~MenuOverlay

\* The X button of the header.
MenuCloseClick ==
    /\ MenuClickable
    /\ OnClose
    /\ Quiet
    /\ UNCHANGED <<store, productMovements, route, loadPc, details, menu,
                   inflight, updates, unlocked>>

MenuHandleEdit ==
    /\ MenuClickable
    /\ ~menu.isEditing
    /\ menu' = [menu EXCEPT !.showPasswordPrompt = TRUE]
    /\ Quiet
    /\ UNCHANGED <<store, productMovements, route, loadPc, details, props,
                   inflight, updates, unlocked>>

MenuHandlePasswordSuccess ==
    /\ props.isOpen
    /\ menu.showPasswordPrompt
    /\ menu' = [menu EXCEPT !.showPasswordPrompt = FALSE, !.isEditing = TRUE]
    /\ unlocked' = unlocked \cup {"menu"}
    /\ Quiet
    /\ UNCHANGED <<store, productMovements, route, loadPc, details, props,
                   inflight, updates>>

MenuPasswordOnClose ==
    /\ props.isOpen
    /\ menu.showPasswordPrompt
    /\ menu' = [menu EXCEPT !.showPasswordPrompt = FALSE]
    /\ Quiet
    /\ UNCHANGED <<store, productMovements, route, loadPc, details, props,
                   inflight, updates, unlocked>>

\* An entry of the action list that opens sub-dialog d.
MenuShowSubDialog(d) ==
    /\ MenuClickable
    /\ ~menu.isEditing
    /\ menu' = [menu EXCEPT ![d] = TRUE]
    /\ Quiet
    /\ UNCHANGED <<store, productMovements, route, loadPc, details, props,
                   inflight, updates, unlocked>>

\* The onClose passed to sub-dialog d.
MenuSubDialogOnClose(d) ==
    /\ props.isOpen
    /\ menu[d]
    /\ menu' = [menu EXCEPT ![d] = FALSE]
    /\ Quiet
    /\ UNCHANGED <<store, productMovements, route, loadPc, details, props,
                   inflight, updates, unlocked>>

MenuSetEditedQuantity(v) ==
    /\ MenuClickable
    /\ menu.isEditing
    /\ v # menu.editedQuantity
    /\ menu' = [menu EXCEPT !.editedQuantity = v]
    /\ Quiet
    /\ UNCHANGED <<store, productMovements, route, loadPc, details, props,
                   inflight, updates, unlocked>>

MenuSetEditedPrice(v) ==
    /\ MenuClickable
    /\ menu.isEditing
    /\ v # menu.editedPrice
    /\ menu' = [menu EXCEPT !.editedPrice = v]
    /\ Quiet
    /\ UNCHANGED <<store, productMovements, route, loadPc, details, props,
                   inflight, updates, unlocked>>

MenuCancel ==
    /\ MenuClickable
    /\ menu.isEditing
    /\ menu' = [menu EXCEPT !.isEditing = FALSE]
    /\ Quiet
    /\ UNCHANGED <<store, productMovements, route, loadPc, details, props,
                   inflight, updates, unlocked>>

\* The toast of the inline form's validation, NoNotification when it passes.
MenuValidation(q, p) ==
    IF q < 0 THEN MenuQuantityNegative
    ELSE IF p < 0 THEN MenuPriceNegative
    ELSE NoNotification

MenuHandleSave ==
    /\ MenuClickable
    /\ menu.isEditing
    /\ LET q == menu.editedQuantity
           p == menu.editedPrice
           toast == MenuValidation(q, p)
       IN IF toast # NoNotification
          THEN /\ notification' = toast
               /\ UNCHANGED inflight
          ELSE /\ CanSend
               /\ inflight' = inflight (+) SetToBag({SaveCall("menu", props.product, q, p)})
               /\ notification' = NoNotification
    /\ navigation' = NoNavigation
    /\ UNCHANGED <<store, productMovements, route, loadPc, details, props, menu,
                   updates, unlocked>>

\* The fields the inline form's handleSave hands to updateDoc.
MenuProductUpdate(q, p) ==
    [quantity |-> q, averagePurchasePrice |-> p, totalPurchasePrice |-> q * p]

\* updateDoc resolves: success toast, then onClose().
MenuUpdateDocResolve(call) ==
    /\ BagIn(call, inflight)
    /\ call.origin = "menu"
    /\ store' = MenuProductUpdate(call.editedQuantity, call.editedPrice)
    /\ updates' = updates + 1
    /\ inflight' = inflight (-) SetToBag({call})
    /\ notification' = MenuSuccess
    /\ navigation' = NoNavigation
    /\ OnClose
    /\ UNCHANGED <<productMovements, route, loadPc, details, menu, unlocked>>

\* updateDoc rejects: the catch block.
MenuUpdateDocReject(call) ==
    /\ BagIn(call, inflight)
    /\ call.origin = "menu"
    /\ inflight' = inflight (-) SetToBag({call})
    /\ notification' = MenuError
    /\ navigation' = NoNavigation
    /\ UNCHANGED <<store, productMovements, route, loadPc, details, props, menu,
                   updates, unlocked>>

ExpenseRoute == "/warehouse/expense/new"
IncomeRoute == "/warehouse/income/new"

\* navigate(path, {state: {addedProduct: {product, quantity}}}): the tab
\* leaves the product list for the page at path.
Navigate(path, product, quantity) ==
    /\ navigation' = [path |-> path, product |-> product, quantity |-> quantity]
    /\ route' = [route EXCEPT !.page = path]

\* onConfirm of the expense quantity dialog.
HandleExpenseQuantityConfirm(quantity) ==
    /\ props.isOpen
    /\ menu.showExpenseQuantity
    /\ Navigate(ExpenseRoute, props.product, quantity)
    /\ OnClose
    /\ notification' = NoNotification
    /\ UNCHANGED <<store, productMovements, loadPc, details, menu,
                   inflight, updates, unlocked>>

\* The income handler navigating to the expense route.
HandleIncomeQuantityConfirmToExpense(quantity) ==
    /\ props.isOpen
    /\ menu.showIncomeQuantity
    /\ Navigate(ExpenseRoute, props.product, quantity)
    /\ OnClose
    /\ notification' = NoNotification
    /\ UNCHANGED <<store, productMovements, loadPc, details, menu,
                   inflight, updates, unlocked>>

\* onConfirm of the income quantity dialog.
HandleIncomeQuantityConfirm(quantity) ==
    /\ props.isOpen
    /\ menu.showIncomeQuantity
    /\ Navigate(IncomeRoute, props.product, quantity)
    /\ OnClose
    /\ notification' = NoNotification
    /\ UNCHANGED <<store, productMovements, loadPc, details, menu,
                   inflight, updates, unlocked>>

-----------------------------------------------------------------------------

Next ==
    \/ LoadProduct
    \/ GetDocResolve
    \/ GetDocReject
    \/ DetailsHandleEditClick
    \/ DetailsHandlePasswordSuccess
    \/ DetailsPasswordOnClose
    \/ \E v \in QtyInputs : DetailsSetEditedQuantity(v)
    \/ \E v \in PriceInputs : DetailsSetEditedPrice(v)
    \/ DetailsCancel
    \/ DetailsHandleSave
    \/ \E call \in BagToSet(inflight) : DetailsUpdateDocResolve(call)
    \/ \E call \in BagToSet(inflight) : DetailsUpdateDocReject(call)
    \/ \E call \in BagToSet(inflight) : DetailsSetDocResolve(call)
    \/ \E call \in BagToSet(inflight) : DetailsSetDocReject(call)
    \/ Open
    \/ MenuCloseClick
    \/ MenuHandleEdit
    \/ MenuHandlePasswordSuccess
    \/ MenuPasswordOnClose
    \/ \E d \in SubDialogs : MenuShowSubDialog(d)
    \/ \E d \in SubDialogs : MenuSubDialogOnClose(d)
    \/ \E v \in QtyInputs : MenuSetEditedQuantity(v)
    \/ \E v \in PriceInputs : MenuSetEditedPrice(v)
    \/ MenuCancel
    \/ MenuHandleSave
    \/ \E call \in BagToSet(inflight) : MenuUpdateDocResolve(call)
    \/ \E call \in BagToSet(inflight) : MenuUpdateDocReject(call)
    \/ \E q \in ConfirmedQuantities : HandleExpenseQuantityConfirm(q)
    \/ \E q \in ConfirmedQuantities : HandleIncomeQuantityConfirm(q)

Spec == Init /\ [][Next]_vars

-----------------------------------------------------------------------------
(* Properties *)

\* C1: a save attempted with a negative quantity or a negative price, on the
\* detail page or in the menu's inline form, sends nothing to the store, leaves
\* the product and the movement log as they are, and shows an error toast.
C1_NegativeSaveWritesNothing ==
    [][/\ (DetailsHandleSave /\ (details.editedQuantity < 0 \/ details.editedPrice < 0))
            => /\ UNCHANGED <<store, productMovements, inflight, updates>>
               /\ notification' \in {DetailsQuantityNegative, DetailsPriceNegative}
       /\ (MenuHandleSave /\ (menu.editedQuantity < 0 \/ menu.editedPrice < 0))
            => /\ UNCHANGED <<store, productMovements, inflight, updates>>
               /\ notification' \in {MenuQuantityNegative, MenuPriceNegative}]_vars

\* C1 witness: Save was clicked with a valid quantity and a negative price.
C1_Witness ==
    /\ notification = DetailsPriceNegative
    /\ details.isEditing
    /\ details.editedQuantity >= 0
    /\ details.editedPrice < 0

\* A suspended call that the step has just added.
Sent(call) == CopiesIn(call, inflight') > CopiesIn(call, inflight)

\* C2: a detail-page save whose two writes succeed appends exactly one movement
\* record: quantity |new - previous|, type "in" when new > previous and "out"
\* otherwise, previousQuantity and newQuantity as named, where previous is the
\* quantity of the product the page held when Save was clicked and new the
\* edited quantity.
C2_OneMovementRecordPerSave ==
    [][/\ \A call \in BagToSet(inflight') :
            (Sent(call) /\ call.origin = "details" /\ call.phase = "updateDoc")
                => /\ call.product = details.product
                   /\ call.editedQuantity = details.editedQuantity
       /\ \A call \in BagToSet(inflight) :
            DetailsSetDocResolve(call)
                => LET prevQty == call.product.quantity
                       newQty == call.editedQuantity
                       n == Len(productMovements)
                   IN /\ Len(productMovements') = n + 1
                      /\ SubSeq(productMovements', 1, n) = productMovements
                      /\ productMovements'[n + 1].quantity = Abs(newQty - prevQty)
                      /\ productMovements'[n + 1].type
                           = (IF newQty > prevQty THEN "in" ELSE "out")
                      /\ productMovements'[n + 1].previousQuantity = prevQty
                      /\ productMovements'[n + 1].newQuantity = newQty
       /\ productMovements' # productMovements
            => \E call \in BagToSet(inflight) : DetailsSetDocResolve(call)]_vars

\* C2 witness: two saves have succeeded, the first raised the quantity, the
\* second changed the price only.
C2_Witness ==
    /\ notification = DetailsSuccess
    /\ Len(productMovements) = 2
    /\ productMovements[1].type = "in"
    /\ productMovements[1].quantity = MaxQty
    /\ productMovements[2].type = "out"
    /\ productMovements[2].quantity = 0
    /\ productMovements[2].previousAveragePrice # productMovements[2].newAveragePrice

\* C3: with no save in flight, the movement log holds one record for every
\* product update that the edits of the detail page and of the menu's inline
\* form have applied to the store.
C3_OneRecordPerAppliedUpdate ==
    inflight = EmptyBag => Len(productMovements) = updates

C5_EditModeOnlyAfterPassword ==
    /\ [][/\ (details'.isEditing /\ ~details.isEditing)
                => details.showPasswordPrompt /\ ~details'.showPasswordPrompt
          /\ (menu'.isEditing /\ ~menu.isEditing)
                => menu.showPasswordPrompt /\ ~menu'.showPasswordPrompt
          /\ DetailsHandleEditClick
                => details'.showPasswordPrompt /\ ~details'.isEditing
          /\ MenuHandleEdit
                => menu'.showPasswordPrompt /\ ~menu'.isEditing
          /\ DetailsPasswordOnClose
                => ~details'.showPasswordPrompt /\ ~details'.isEditing
          /\ MenuPasswordOnClose
                => ~menu'.showPasswordPrompt /\ ~menu'.isEditing
          /\ (DetailsHandleSave \/ details'.isEditing) => "details" \in unlocked'
          /\ (MenuHandleSave \/ menu'.isEditing) => "menu" \in unlocked']_vars
    /\ []((inflight # EmptyBag \/ updates > 0) => unlocked # {})

\* C5 witness: the prompt of the detail page has succeeded, the page is in
\* edit mode and a save is on its way.
C5_Witness ==
    /\ details.isEditing
    /\ ~details.showPasswordPrompt
    /\ unlocked = {"details"}
    /\ inflight # EmptyBag

\* C6: confirming quantity q in the expense (income) quantity dialog writes
\* nothing to the store, calls navigate once, to the expense (income) creation
\* route with the product and q, and closes the menu.
C6_ConfirmOnlyNavigates ==
    [][/\ \A q \in ConfirmedQuantities :
            HandleExpenseQuantityConfirm(q)
                => /\ navigation' = [path |-> "/warehouse/expense/new",
                                     product |-> props.product, quantity |-> q]
                   /\ ~props'.isOpen
       /\ \A q \in ConfirmedQuantities :
            HandleIncomeQuantityConfirm(q)
                => /\ navigation' = [path |-> "/warehouse/income/new",
                                     product |-> props.product, quantity |-> q]
                   /\ ~props'.isOpen
       /\ navigation' # NoNavigation
            => UNCHANGED <<store, productMovements, inflight, updates>>]_vars

\* C6 witness: the income dialog was confirmed with the largest quantity.
C6_Witness ==
    /\ navigation # NoNavigation
    /\ navigation.path = "/warehouse/income/new"
    /\ navigation.quantity = MaxQty
    /\ ~props.isOpen

\* C7: in a detail-page save the product update is applied first, the
\* movement record appended next, and only then is edit mode left and the
\* success toast shown: no record is appended before its update was applied,
\* and a save leaves edit mode or shows the success toast only when both
\* writes succeeded.
C7_UpdateThenRecordThenExit ==
    /\ [](Len(productMovements) <= updates)
    /\ [][/\ Len(productMovements') > Len(productMovements)
                => /\ updates >= Len(productMovements')
                   /\ updates' = updates
                   /\ notification' = DetailsSuccess
          /\ notification' = DetailsSuccess
                => /\ Len(productMovements') = Len(productMovements) + 1
                   /\ ~details'.isEditing
          /\ (details.isEditing /\ ~details'.isEditing /\ inflight' # inflight)
                => /\ notification' = DetailsSuccess
                   /\ Len(productMovements') = Len(productMovements) + 1]_vars

\* C7 witness: a save has just succeeded; the record of its update is the
\* last of the log and edit mode is off.
C7_Witness ==
    /\ notification = DetailsSuccess
    /\ ~details.isEditing
    /\ updates = 1
    /\ Len(productMovements) = 1
    /\ productMovements[1].newQuantity = store.quantity

\* C8: once the mount effect of the detail page has run to its end the page
\* is no longer loading, whatever the route parameter; it then shows the
\* product only if the store holds a document with that id.
C8_LoadingEnds ==
    loadPc = "returned"
        => /\ ~details.loading
           /\ details.product # Null => route.id = ProductId

\* C9: when the store rejects the product update of a save, nothing but the
\* error toast changes: the stored product, the movement log, the page's
\* local product, edit mode and the edited values stay, and no new request
\* is sent.
C9_RejectedUpdateChangesNothing ==
    [][\A call \in BagToSet(inflight) :
        /\ DetailsUpdateDocReject(call)
            => /\ UNCHANGED <<store, productMovements, updates, details, menu, props>>
               /\ inflight' = inflight (-) SetToBag({call})
               /\ notification' = DetailsError
        /\ MenuUpdateDocReject(call)
            => /\ UNCHANGED <<store, productMovements, updates, details, menu, props>>
               /\ inflight' = inflight (-) SetToBag({call})
               /\ notification' = MenuError]_vars

\* C9 witness: the only save of the detail page was rejected at its product
\* update; the page is still in edit mode with the edited values, the store
\* as it was.
C9_Witness ==
    /\ notification = DetailsError
    /\ updates = 0
    /\ inflight = EmptyBag
    /\ details.isEditing
    /\ details.editedQuantity = MaxQty
    /\ details.product.quantity = 0
    /\ store \in InitialProducts
    /\ productMovements = <<>>

\* C10: whenever the menu goes from closed to open it shows the action list:
\* no inline edit form, no password prompt, no sub-dialog.
C10_OpenShowsActionList ==
    [][(~props.isOpen /\ props'.isOpen)
        => /\ ~menu'.isEditing
           /\ ~menu'.showPasswordPrompt
           /\ \A d \in SubDialogs : ~menu'[d]]_vars

\* C11: the movement log is a gap-free audit trail: each record's
\* previousQuantity is the newQuantity of the record appended before it, and
\* when no save is in flight the newQuantity of the last record is the stored
\* quantity of the product.
C11_GapFreeAuditTrail ==
    /\ \A i \in 2..Len(productMovements) :
         productMovements[i].previousQuantity = productMovements[i - 1].newQuantity
    /\ (inflight = EmptyBag /\ productMovements # <<>>)
         => productMovements[Len(productMovements)].newQuantity = store.quantity

\* C12: cancelling an edit writes nothing to the store, and at every entry
\* into edit mode (detail view or menu inline form) the editable quantity and
\* price equal the quantity and average price of the product shown.
C12_CancelDiscardsEdit ==
    [][/\ (DetailsCancel \/ MenuCancel)
            => UNCHANGED <<store, productMovements, inflight>>
       /\ DetailsHandlePasswordSuccess
            => /\ details'.editedQuantity = details.product.quantity
               /\ details'.editedPrice = details.product.averagePurchasePrice
       /\ MenuHandlePasswordSuccess
            => /\ menu'.editedQuantity = props.product.quantity
               /\ menu'.editedPrice = props.product.averagePurchasePrice]_vars

=============================================================================
